---- MODULE Spec2Model ----
(***************************************************************************)
(* A model of nakuritycore's expectation engine: the annotation registry   *)
(* (Nakurity.expect / comment / require / guard), the expectation parser,  *)
(* the dynamic simulator, the module-enforcement wrapper                   *)
(* (NakurityRequirement) and the unified analysis pass (Nakuly.analyze).   *)
(*                                                                         *)
(* Python strings are modelled as sequences of one-character strings, so   *)
(* that strip / lower / split / startswith / "in" are computed, not        *)
(* assumed.  Program entities (functions and classes) are modelled by      *)
(* their identity (a model value written as a TLA+ string); their          *)
(* attributes are looked up in the table Target.                           *)
(***************************************************************************)
EXTENDS Integers, Sequences, FiniteSets

VARIABLES
    registry,        \* Nakurity._registry: the list of entry dicts
    lastOp,          \* the operation that ran last, with its arguments
    result,          \* how that operation ended: what it returned or raised
    events,          \* what that operation did besides: trace events, sink lines,
                     \* invocations of targets, parses, evaluations
    nakulyRegistry,  \* Nakuly's self._registry
    rules            \* Nakuly's self.rules

vars == <<registry, lastOp, result, events, nakulyRegistry, rules>>

-----------------------------------------------------------------------------
(* Bounds of the model.                                                    *)

MaxRegistry == 2     \* entries in a registry
MaxRequire == 2      \* names in one entry's "require" list
MaxLines == 3        \* lines of an expectation text given to the parser
MaxRules == 4        \* rule plugins installed in a Nakuly instance
MaxEntries == 4      \* entries in the registry of a Nakuly instance

-----------------------------------------------------------------------------
(* Python values.                                                          *)

\* None, in a field that otherwise holds a string (a sequence of characters).
None == <<"None">>

\* bool(x) of a value that is None or a string or a list.
Truthy(x) == x # None /\ Len(x) > 0

\* a Python object other than a string or a program entity: the name of its
\* type and its repr
PyValue(type, repr) == [type |-> type, v |-> repr]
PyNone == PyValue("NoneType", "None")

\* how a call ended: it returned value, or it raised exc
Returned(value) == [kind |-> "returned", value |-> value]
Raised(exc) == [kind |-> "raised", value |-> exc]

\* A run of statements: the events it left and how it ended.
\* statements that ran to their end, leaving evs
Done(evs) == [events |-> evs, result |-> Returned(PyNone)]
\* statements that left evs and then raised exc
Failed(evs, exc) == [events |-> evs, result |-> Raised(exc)]
\* run a, then run b: b does not run when a raised
Then(a, b) ==
    IF a.result.kind = "raised" THEN a
    ELSE [events |-> a.events \o b.events, result |-> b.result]

-----------------------------------------------------------------------------
(* str methods, on sequences of characters.                                *)

Whitespace == {" ", "\n", "\t"}

UpperCase == <<"A", "B", "C", "D", "E", "F", "G", "H", "I", "J", "K", "L", "M",
               "N", "O", "P", "Q", "R", "S", "T", "U", "V", "W", "X", "Y", "Z">>
LowerCase == <<"a", "b", "c", "d", "e", "f", "g", "h", "i", "j", "k", "l", "m",
               "n", "o", "p", "q", "r", "s", "t", "u", "v", "w", "x", "y", "z">>

Digits == <<"0", "1", "2", "3", "4", "5", "6", "7", "8", "9">>

\* c.lower() of one character
LowerChar(c) ==
    IF \E i \in 1..26 : UpperCase[i] = c
    THEN LowerCase[CHOOSE i \in 1..26 : UpperCase[i] = c]
    ELSE c

\* s.lower()
Lower(s) == [i \in 1..Len(s) |-> LowerChar(s[i])]

RECURSIVE LStrip(_)
LStrip(s) == IF s # <<>> /\ Head(s) \in Whitespace THEN LStrip(Tail(s)) ELSE s

RECURSIVE RStrip(_)
RStrip(s) ==
    IF s # <<>> /\ s[Len(s)] \in Whitespace THEN RStrip(SubSeq(s, 1, Len(s) - 1)) ELSE s

\* s.strip()
Strip(s) == LStrip(RStrip(s))

\* s.startswith(p)
StartsWith(s, p) == Len(s) >= Len(p) /\ SubSeq(s, 1, Len(p)) = p

\* the positions at which sub occurs in s
Occurrences(s, sub) ==
    {i \in 1..(Len(s) - Len(sub) + 1) : SubSeq(s, i, i + Len(sub) - 1) = sub}

\* sub in s
Contains(s, sub) == Occurrences(s, sub) # {}

Min(S) == CHOOSE x \in S : \A y \in S : x <= y
Max(S) == CHOOSE x \in S : \A y \in S : x >= y

\* s.split(sep): the pieces of s between the occurrences of sep, left to right
RECURSIVE Split(_, _)
Split(s, sep) ==
    IF ~Contains(s, sep) THEN <<s>>
    ELSE LET i == Min(Occurrences(s, sep))
         IN  <<SubSeq(s, 1, i - 1)>> \o Split(SubSeq(s, i + Len(sep), Len(s)), sep)

\* s.split(): the maximal runs of non-whitespace characters
RECURSIVE SplitWhitespace(_)
SplitWhitespace(s) ==
    LET t == LStrip(s)
    IN  IF t = <<>> THEN <<>>
        ELSE LET ws == {i \in 1..Len(t) : t[i] \in Whitespace}
                 n  == IF ws = {} THEN Len(t) ELSE Min(ws) - 1
             IN  <<SubSeq(t, 1, n)>> \o SplitWhitespace(SubSeq(t, n + 1, Len(t)))

\* s.splitlines(): the lines of s, without a last empty line after a final "\n"
SplitLines(s) ==
    LET parts == Split(s, <<"\n">>)
    IN  IF parts[Len(parts)] = <<>> THEN SubSeq(parts, 1, Len(parts) - 1) ELSE parts

\* s.replace(a, b) for single characters a and b
ReplaceChar(s, a, b) == [i \in 1..Len(s) |-> IF s[i] = a THEN b ELSE s[i]]

\* s.isdigit()
IsDigit(s) == s # <<>> /\ \A i \in 1..Len(s) : \E d \in 1..10 : Digits[d] = s[i]

DigitValue(c) == (CHOOSE d \in 1..10 : Digits[d] = c) - 1

\* int(s) of a string of decimal digits
RECURSIVE Int_(_)
Int_(s) ==
    IF s = <<>> THEN 0 ELSE 10 * Int_(SubSeq(s, 1, Len(s) - 1)) + DigitValue(s[Len(s)])

\* "\n".join(lines)
RECURSIVE JoinLines(_)
JoinLines(lines) ==
    IF lines = <<>> THEN <<>>
    ELSE IF Len(lines) = 1 THEN lines[1]
    ELSE lines[1] \o <<"\n">> \o JoinLines(Tail(lines))

\* the concatenation of a sequence of sequences
RECURSIVE Flatten(_)
Flatten(ss) == IF ss = <<>> THEN <<>> ELSE Head(ss) \o Flatten(Tail(ss))

-----------------------------------------------------------------------------
(* The annotation registry: Nakurity.expect / comment / require / guard.   *)

\* the dict a decorator appends for an entity that has no entry
Entry(obj, expectText, commentText, requireNames, guardText) ==
    [obj |-> obj, expect |-> expectText, comment |-> commentText,
     require |-> requireNames, guard |-> guardText]

\* "for entry in cls._registry: if entry["obj"] is obj: ... break":
\* the index of the first entry of obj, 0 when the loop ends without a break
FindEntry(reg, obj) ==
    LET hits == {i \in 1..Len(reg) : reg[i].obj = obj}
    IN  IF hits = {} THEN 0 ELSE Min(hits)

\* the decorator of expect(text), applied to obj: always appends
expect(reg, text, obj) ==
    Append(reg, Entry(obj, Strip(text), None, <<>>, None))

\* the decorator of comment(text), applied to obj
comment(reg, text, obj) ==
    LET i == FindEntry(reg, obj)
    IN  IF i > 0 THEN [reg EXCEPT ![i].comment = Strip(text)]
        ELSE Append(reg, Entry(obj, None, Strip(text), <<>>, None))

\* a faulty variant of require: a decorator that replaces the names of earlier calls
require_replaces(reg, names, obj) ==
    LET i == FindEntry(reg, obj)
    IN  IF i > 0 THEN [reg EXCEPT ![i].require = names]
        ELSE Append(reg, Entry(obj, None, None, names, None))

\* the decorator of require(*names), applied to obj
require(reg, names, obj) ==
    LET i == FindEntry(reg, obj)
    IN  IF i > 0 THEN [reg EXCEPT ![i].require = @ \o names]
        ELSE Append(reg, Entry(obj, None, None, names, None))

\* the decorator of guard(condition), applied to obj
guard(reg, condition, obj) ==
    LET i == FindEntry(reg, obj)
    IN  IF i > 0 THEN [reg EXCEPT ![i].guard = condition]
        ELSE Append(reg, Entry(obj, None, None, <<>>, condition))

\* a faulty variant of the return: a decorator that returns a wrapper in place of obj
decorator_returns_wrapper(obj) == Returned("wrapper")

\* "return obj", the last statement of each of the four decorators
decorator_return(obj) == Returned(obj)

\* the entries a registry holds for obj, in registry order
EntriesOf(reg, obj) == SelectSeq(reg, LAMBDA e : e.obj = obj)

-----------------------------------------------------------------------------
(* Inputs of the registry specification.                                   *)

Entities == {"f", "g"}

ExpectTexts == {<<" ", "r", "e", "t", "u", "r", "n", " ", "i", "n", "t", "\n">>}
CommentTexts == {<<"A", "d", "d", "s", ".", " ">>}
GuardTexts == {<<"1", "/", "0", " ">>}
\* the argument tuples of require(*names); a name is an identifier
RequireArgs == {<<"sys">>, <<"greet">>, <<"sys", "greet">>}

Annotators == {"expect", "comment", "require", "guard"}

\* whether the decorator of annotator op would append an entry for obj
Adds(op, obj) == op = "expect" \/ FindEntry(registry, obj) = 0

\* the "require" list of obj's entry after require(*names): within the bound
RequireFits(names, obj) ==
    LET i == FindEntry(registry, obj)
    IN  (IF i > 0 THEN Len(registry[i].require) ELSE 0) + Len(names) <= MaxRequire

Annotate(op, arg, obj, reg) ==
    /\ Adds(op, obj) => Len(registry) < MaxRegistry
    /\ registry' = reg
    /\ lastOp' = [op |-> op, arg |-> arg, obj |-> obj]
    /\ result' = decorator_return(obj)
    /\ events' = <<>>
    /\ UNCHANGED <<nakulyRegistry, rules>>

Expect(text, obj) == Annotate("expect", text, obj, expect(registry, text, obj))

Comment(text, obj) == Annotate("comment", text, obj, comment(registry, text, obj))

Require(names, obj) ==
    /\ RequireFits(names, obj)
    /\ Annotate("require", names, obj, require(registry, names, obj))

Guard(condition, obj) == Annotate("guard", condition, obj, guard(registry, condition, obj))

\* the state after the classes are defined and before any annotation
Init ==
    /\ registry = <<>>
    /\ lastOp = [op |-> "init"]
    /\ result = Returned(PyNone)
    /\ events = <<>>
    /\ nakulyRegistry = <<>>
    /\ rules = <<>>

Next ==
    \/ \E t \in ExpectTexts, o \in Entities : Expect(t, o)
    \/ \E t \in CommentTexts, o \in Entities : Comment(t, o)
    \/ \E n \in RequireArgs, o \in Entities : Require(n, o)
    \/ \E c \in GuardTexts, o \in Entities : Guard(c, o)

Spec == Init /\ [][Next]_vars

-----------------------------------------------------------------------------
(* Claims about the registry, under Spec.                                  *)

\* C1: after any sequence of annotator applications the registry holds at
\* most one entry per distinct entity: an annotator applied to an entity that
\* already has an entry never adds a second one.
C1_OneEntryPerEntity ==
    \A o \in Entities : Len(EntriesOf(registry, o)) <= 1

\* the decorator of annotator op with its fixed argument, applied to o
ApplyAnnotator(op, reg, o) ==
    CASE op = "expect" -> expect(reg, CHOOSE t \in ExpectTexts : TRUE, o)
      [] op = "comment" -> comment(reg, CHOOSE t \in CommentTexts : TRUE, o)
      [] op = "guard" -> guard(reg, CHOOSE t \in GuardTexts : TRUE, o)

\* C2: for any entity and any two different annotators among expect, comment
\* and guard, applying them in either order leaves the same registry content
\* for that entity (number of entries and field values), and applying one
\* annotator twice with the same argument gives the same content as once.
C2_OrderIrrelevantAndIdempotent ==
    \A o \in Entities : \A a, b \in {"expect", "comment", "guard"} :
        /\ a # b =>
              EntriesOf(ApplyAnnotator(a, ApplyAnnotator(b, registry, o), o), o)
                = EntriesOf(ApplyAnnotator(b, ApplyAnnotator(a, registry, o), o), o)
        /\ EntriesOf(ApplyAnnotator(a, ApplyAnnotator(a, registry, o), o), o)
              = EntriesOf(ApplyAnnotator(a, registry, o), o)

\* the "require" list of the entry the decorators find for o, empty without one
RequiredNames(reg, o) ==
    IF FindEntry(reg, o) > 0 THEN reg[FindEntry(reg, o)].require ELSE <<>>

\* C8: each application of require(*names) to an entity leaves the
\* required_names of the entity's entry equal to the names it held before
\* followed by the supplied names, and no other annotator changes them; so
\* the list is the concatenation of the supplied names in application order.
C8_RequireAppends ==
    [][lastOp'.op \in Annotators =>
          RequiredNames(registry', lastOp'.obj)
            = RequiredNames(registry, lastOp'.obj)
                \o (IF lastOp'.op = "require" THEN lastOp'.arg ELSE <<>>)]_vars

\* a second require call has added its name after the name of the first
C8_Witness ==
    /\ lastOp.op = "require"
    /\ lastOp.arg = <<"greet">>
    /\ RequiredNames(registry, lastOp.obj) = <<"sys", "greet">>

-----------------------------------------------------------------------------
(* The expectation parser: Nakurity._parse_expectations.                   *)

\* rules = {"args": [], "return": None, "no_exceptions": False, "must_call": []};
\* the key "args_expected_count" is absent (<<>>) until a line sets it (<<n>>)
EmptyRules ==
    [args |-> <<>>, return |-> None, no_exceptions |-> FALSE, must_call |-> <<>>,
     args_expected_count |-> <<>>]

Last(s) == s[Len(s)]

\* [int(s) for s in line.split() if s.isdigit()]
digit_tokens(line) ==
    [i \in 1..Len(SelectSeq(SplitWhitespace(line), IsDigit)) |->
        Int_(SelectSeq(SplitWhitespace(line), IsDigit)[i])]

\* the if / elif chain of the loop body, on the stripped and lower-cased line
parse_stripped(rs, line) ==
    IF line = <<>> THEN rs
    ELSE IF Contains(line, <<"a", "r", "g", "u", "m", "e", "n", "t">>) /\ Contains(line, <<":">>)
    THEN [rs EXCEPT !.args =
             @ \o SplitWhitespace(ReplaceChar(Strip(Split(line, <<":">>)[2]), ",", " "))]
    ELSE IF StartsWith(line, <<"t", "a", "k", "e", "s">>)
    THEN IF digit_tokens(line) # <<>>
         THEN [rs EXCEPT !.args_expected_count = <<digit_tokens(line)[1]>>]
         ELSE rs
    ELSE IF Contains(line, <<"r", "e", "t", "u", "r", "n">>)
    THEN [rs EXCEPT !.return = Strip(Last(Split(line, <<"r", "e", "t", "u", "r", "n">>)))]
    ELSE IF Contains(line, <<"n", "o", " ", "e", "x", "c", "e", "p", "t", "i", "o", "n">>) \/ Contains(line, <<"s", "h", "o", "u", "l", "d", " ", "n", "o", "t", " ", "r", "a", "i", "s", "e">>)
    THEN [rs EXCEPT !.no_exceptions = TRUE]
    ELSE IF Contains(line, <<"m", "u", "s", "t", " ", "c", "a", "l", "l">>)
    THEN [rs EXCEPT !.must_call = Append(@, Strip(Last(Split(line, <<"m", "u", "s", "t", " ", "c", "a", "l", "l">>))))]
    ELSE rs

\* the body of "for line in text.splitlines()": line = line.strip().lower()
parse_line(rs, raw) == parse_stripped(rs, Lower(Strip(raw)))

RECURSIVE parse_lines(_, _)
parse_lines(rs, lines) ==
    IF lines = <<>> THEN rs ELSE parse_lines(parse_line(rs, Head(lines)), Tail(lines))

\* _parse_expectations(text)
parse_expectations(text) == parse_lines(EmptyRules, SplitLines(text))

-----------------------------------------------------------------------------
(* The parser on its own: SpecParse.                                       *)

TakesArgumentsLine == <<"t", "a", "k", "e", "s", " ", "2", " ", "a", "r", "g", "u", "m", "e", "n", "t", "s", ":", " ", "x", ",", " ", "y">>

\* the lines expectation texts are made of
ParseLines ==
    { TakesArgumentsLine,
      <<"T", "a", "k", "e", "s", " ", "3", " ", "v", "a", "l", "u", "e", "s">>,
      <<" ", " ", "t", "a", "k", "e", "s", " ", "1">>,
      <<"r", "e", "t", "u", "r", "n", " ", "i", "n", "t">>,
      <<"s", "h", "o", "u", "l", "d", " ", "n", "o", "t", " ", "r", "a", "i", "s", "e", " ", "e", "x", "c", "e", "p", "t", "i", "o", "n">>,
      <<"m", "u", "s", "t", " ", "c", "a", "l", "l", " ", "g", "r", "e", "e", "t">> }

\* the expectation texts: one to MaxLines lines, joined by "\n"
ParseTexts ==
    {JoinLines(ls) : ls \in UNION {[1..n -> ParseLines] : n \in 1..MaxLines}}

\* a text is at hand, not parsed yet
InitParse ==
    /\ registry = <<>>
    /\ lastOp \in {[op |-> "text", arg |-> t] : t \in ParseTexts}
    /\ result = Returned(PyNone)
    /\ events = <<>>
    /\ nakulyRegistry = <<>>
    /\ rules = <<>>

ParseExpectations ==
    /\ lastOp.op = "text"
    /\ lastOp' = [op |-> "parse", arg |-> lastOp.arg]
    /\ result' = [kind |-> "returned", value |-> parse_expectations(lastOp.arg)]
    /\ events' = <<>>
    /\ UNCHANGED <<registry, nakulyRegistry, rules>>

NextParse == ParseExpectations

SpecParse == InitParse /\ [][NextParse]_vars

\* whether a line begins with "takes" followed by a digit token
TakesDigitLine(raw) ==
    LET toks == SplitWhitespace(Lower(Strip(raw)))
    IN  Len(toks) >= 2 /\ toks[1] = <<"t", "a", "k", "e", "s">> /\ IsDigit(toks[2])

\* the elements of a sequence
Range(s) == {s[i] : i \in 1..Len(s)}

\* C7: when the one line of a text that begins with "takes" followed by a
\* digit token n is parsed, the rule has argument_count = n; in particular
\* "takes 2 arguments: x, y" parses to argument_count 2 and names {x, y}.
C7_TakesSetsArgumentCount ==
    lastOp.op = "parse" =>
        LET lines == SplitLines(lastOp.arg)
            takes == SelectSeq(lines, TakesDigitLine)
        IN  /\ Len(takes) = 1 =>
                  result.value.args_expected_count
                    = <<Int_(SplitWhitespace(Lower(Strip(takes[1])))[2])>>
            /\ lastOp.arg = TakesArgumentsLine =>
                  /\ result.value.args_expected_count = <<2>>
                  /\ Range(result.value.args) = {<<"x">>, <<"y">>}

-----------------------------------------------------------------------------
(* Program entities and Python objects.                                    *)

\* inspect.Parameter.empty, as the default of a parameter that has none
NoDefault == PyValue("empty", "empty")

Param(name, default) == [name |-> name, default |-> default]

\* The entities of the model: kind is what isinstance(obj, FunctionType) and
\* inspect.isclass(obj) tell, module is obj.__module__, params is
\* inspect.signature(obj).parameters, annotated tells whether the signature
\* has a return annotation, methods is the number of functions among a
\* class's members.
Target ==
    [f |-> [kind |-> "function", module |-> "app", params |-> <<>>,
            annotated |-> FALSE, methods |-> 0],
     g |-> [kind |-> "function", module |-> "app", params |-> <<>>,
            annotated |-> FALSE, methods |-> 0],
     add |-> [kind |-> "function", module |-> "calc",
              params |-> <<Param(<<"x">>, NoDefault), Param(<<"y">>, NoDefault)>>,
              annotated |-> TRUE, methods |-> 0],
     load |-> [kind |-> "function", module |-> "app",
               params |-> <<Param(<<"f", "i", "l", "e", "_", "p", "a", "t", "h">>, NoDefault),
                            Param(<<"r", "e", "t", "r", "y", "_", "c", "o", "u", "n", "t">>, PyValue("int", "3")),
                            Param(<<"i", "s", "_", "s", "t", "r", "i", "c", "t">>, NoDefault)>>,
               annotated |-> FALSE, methods |-> 0],
     join |-> [kind |-> "function", module |-> "lib", params |-> <<>>,
               annotated |-> FALSE, methods |-> 0],
     Widget |-> [kind |-> "class", module |-> "app", params |-> <<>>,
                 annotated |-> FALSE, methods |-> 1],
     Path |-> [kind |-> "class", module |-> "lib", params |-> <<>>,
               annotated |-> FALSE, methods |-> 2],
     NakurityRequirement |->
         [kind |-> "class", module |-> "nakuritycore.core.requirement",
          params |-> <<>>, annotated |-> FALSE, methods |-> 3]]

\* issubclass, on the names of the classes the model uses
ClassBase ==
    [bool |-> "int", int |-> "object", str |-> "object", float |-> "object",
     NoneType |-> "object", object |-> "object",
     TypeError |-> "Exception", ValueError |-> "Exception",
     ArithmeticError |-> "Exception", ZeroDivisionError |-> "ArithmeticError",
     Exception |-> "BaseException", SystemExit |-> "BaseException",
     BaseException |-> "object"]

RECURSIVE IsSubclass(_, _)
IsSubclass(c, d) ==
    \/ c = d
    \/ c # "object" /\ IsSubclass(ClassBase[c], d)

\* isinstance(value, class named d)
IsInstance(value, d) == IsSubclass(value.type, d)

\* What one invocation of a target does: it returns a value, or it raises an
\* instance of a subclass of BaseException: of Exception, the class of
\* errors, or SystemExit, which a target raises by calling sys.exit().
Returns(value) == [kind |-> "return", value |-> value]
Raises(exc) == [kind |-> "raise", value |-> PyValue(exc, "e")]

Behaviours ==
    {Returns(PyValue("int", "0")), Returns(PyValue("str", "xx")),
     Returns(PyValue("bool", "True")), Returns(PyNone),
     Raises("TypeError"), Raises("ValueError"), Raises("SystemExit")}

-----------------------------------------------------------------------------
(* The dynamic simulator: Nakurity._simulate_runtime and _dummy_value.     *)

\* _dummy_value(param), from param.name
dummy_value(pname) ==
    LET name == Lower(pname)
    IN  IF Contains(name, <<"p", "a", "t", "h">>) \/ Contains(name, <<"f", "i", "l", "e">>)
        THEN PyValue("str", "dummy.txt")
        ELSE IF Contains(name, <<"c", "o", "u", "n", "t">>) \/ Contains(name, <<"n", "u", "m">>) \/ Contains(name, <<"i", "d">>)
        THEN PyValue("int", "1")
        ELSE IF Contains(name, <<"f", "l", "a", "g">>) \/ StartsWith(name, <<"i", "s", "_">>)
        THEN PyValue("bool", "True")
        ELSE PyValue("str", "x")

\* the loop that builds fake_args from the signature
fake_args(obj) ==
    [i \in 1..Len(Target[obj].params) |->
        IF Target[obj].params[i].default # NoDefault
        THEN Target[obj].params[i].default
        ELSE dummy_value(Target[obj].params[i].name)]

\* what an operation leaves in events
TraceEvent(event, arg) == [ev |-> "trace", event |-> event, arg |-> arg]
Invocation(obj, args) == [ev |-> "invoke", obj |-> obj, args |-> args]
\* tracer._write(line): finding is the kind of finding the line reports
Write(finding, obj) == [ev |-> "write", finding |-> finding, obj |-> obj]

\* the primitive categories of the return check
PrimitiveKinds == {<<"i", "n", "t">>, <<"f", "l", "o", "a", "t">>, <<"s", "t", "r">>, <<"b", "o", "o", "l">>}

\* eval(expected) for expected in PrimitiveKinds: the name of the class
KindClass(expected) ==
    CASE expected = <<"i", "n", "t">> -> "int"
      [] expected = <<"f", "l", "o", "a", "t">> -> "float"
      [] expected = <<"s", "t", "r">> -> "str"
      [] expected = <<"b", "o", "o", "l">> -> "bool"

\* the class named by "except Exception as e"
handler_class == "Exception"

\* the return check that ends the try body
return_check(obj, rs, value) ==
    IF /\ Truthy(rs.return)
       /\ rs.return \in PrimitiveKinds
       /\ ~IsInstance(value, KindClass(rs.return))
    THEN <<Write("ReturnTypeMismatch", obj)>>
    ELSE <<>>

\* the body of the try statement: the "call" event, the invocation, and when
\* the invocation returns the "return" event and the return check
try_body(obj, rs, beh) ==
    IF beh.kind = "raise"
    THEN Failed(<<TraceEvent("call", PyNone), Invocation(obj, fake_args(obj))>>, beh.value)
    ELSE Done(<<TraceEvent("call", PyNone), Invocation(obj, fake_args(obj)),
                TraceEvent("return", beh.value)>> \o return_check(obj, rs, beh.value))

\* the body of the except clause
except_clause(obj, rs) ==
    IF rs.no_exceptions
    THEN <<Write("UnexpectedException", obj)>>
    ELSE <<Write("ObservedException", obj)>>

\* try: body / except <handler_class> as e: clause
try_except(body, clause) ==
    IF body.result.kind = "raised" /\ IsInstance(body.result.value, handler_class)
    THEN Done(body.events \o clause)
    ELSE body

\* _simulate_runtime(obj, rules, tracer), when invoking obj does beh
simulate_runtime(obj, rs, beh) ==
    IF Target[obj].kind # "function" THEN Done(<<>>)
    ELSE try_except(try_body(obj, rs, beh), except_clause(obj, rs))

-----------------------------------------------------------------------------
(* The simulator on its own: SpecSim.                                      *)

SimTargets == {"add", "load", "Widget"}

\* expectation texts whose rules the simulator is given
SimTexts ==
    { <<>>,
      <<"r", "e", "t", "u", "r", "n", " ", "i", "n", "t">>,
      <<"r", "e", "t", "u", "r", "n", "s", " ", "s", "t", "r", "\n", "s", "h", "o", "u", "l", "d", " ", "n", "o", "t", " ", "r", "a", "i", "s", "e", " ", "e", "x", "c", "e", "p", "t", "i", "o", "n">>,
      <<"n", "o", " ", "e", "x", "c", "e", "p", "t", "i", "o", "n">>,
      <<"r", "e", "t", "u", "r", "n", " ", "b", "o", "o", "l", "\n", "m", "u", "s", "t", " ", "c", "a", "l", "l", " ", "g", "r", "e", "e", "t">>,
      <<"t", "a", "k", "e", "s", " ", "2", " ", "a", "r", "g", "u", "m", "e", "n", "t", "s", ":", " ", "x", ",", " ", "y", "\n", "r", "e", "t", "u", "r", "n", " ", "i", "n", "t", "\n", "s", "h", "o", "u", "l", "d", " ", "n", "o", "t", " ", "r", "a", "i", "s", "e", " ", "e", "x", "c", "e", "p", "t", "i", "o", "n">>,
      <<"r", "e", "t", "u", "r", "n", " ", "a", " ", "n", "u", "m", "b", "e", "r">> }

SimRules == {parse_expectations(t) : t \in SimTexts}

SimulateRuntime(obj, rs, beh) ==
    /\ lastOp' = [op |-> "simulate", obj |-> obj, rules |-> rs, beh |-> beh]
    /\ result' = simulate_runtime(obj, rs, beh).result
    /\ events' = simulate_runtime(obj, rs, beh).events
    /\ UNCHANGED <<registry, nakulyRegistry, rules>>

NextSim == \E o \in SimTargets, rs \in SimRules, beh \in Behaviours : SimulateRuntime(o, rs, beh)

SpecSim == Init /\ [][NextSim]_vars

\* the findings written during the last operation
Findings == SelectSeq(events, LAMBDA e : e.ev = "write")

\* the trace events and invocations of the last operation
TraceAndCalls == SelectSeq(events, LAMBDA e : e.ev \in {"trace", "invoke"})

\* C4: the simulator never raises: whatever fault the invoked target
\* produces is caught and reported as one finding, UnexpectedException when
\* the rule forbids exceptions and ObservedException otherwise, and the
\* simulator returns normally.
C4_SimulatorNeverRaises ==
    lastOp.op = "simulate" =>
        /\ result.kind = "returned"
        /\ (Target[lastOp.obj].kind = "function" /\ lastOp.beh.kind = "raise") =>
              Findings = <<Write(IF lastOp.rules.no_exceptions
                                 THEN "UnexpectedException"
                                 ELSE "ObservedException", lastOp.obj)>>

\* C9: in every run of the simulator on a function target there is one
\* "call" trace event, then one invocation of the target, then one "return"
\* trace event, which carries the result when the target returns and the
\* exception when it raises.
C9_CallInvokeReturn ==
    (lastOp.op = "simulate" /\ Target[lastOp.obj].kind = "function") =>
        /\ Len(TraceAndCalls) = 3
        /\ TraceAndCalls[1].ev = "trace" /\ TraceAndCalls[1].event = "call"
        /\ TraceAndCalls[2].ev = "invoke" /\ TraceAndCalls[2].obj = lastOp.obj
        /\ TraceAndCalls[3] = TraceEvent("return", lastOp.beh.value)

-----------------------------------------------------------------------------
(* The lint pass: Nakurity.lint, _analyze_entry and the checks it calls.   *)

\* print(line), as an event: what is the line's subject
Printed(what, obj) == [ev |-> "print", what |-> what, obj |-> obj]

\* the names that "name in globals()" or "name in sys.modules" finds, in the
\* module that defines Nakurity: its imports and its own class
Resolvable == {"inspect", "sys", "FunctionType", "TracerConfig", "Tracer", "Nakurity"}

\* _check_requirements(requires, obj_name, tracer)
RECURSIVE check_requirements(_, _)
check_requirements(requires, obj) ==
    IF requires = <<>> THEN <<>>
    ELSE (IF Head(requires) \notin Resolvable
          THEN <<Write("MissingRequirement", obj)>> ELSE <<>>)
         \o check_requirements(Tail(requires), obj)

\* eval(condition, globals()) for the guard conditions of the model
eval_guard(condition) ==
    CASE Strip(condition) = <<"1", "/", "0">> -> Raises("ZeroDivisionError")
      [] Strip(condition) = <<"'", "g", "r", "e", "e", "t", "'", " ", "i", "n", " ", "g", "l", "o", "b", "a", "l", "s", "(", ")">> -> Returns(PyValue("bool", "False"))
      [] Strip(condition) = <<"'", "s", "y", "s", "'", " ", "i", "n", " ", "g", "l", "o", "b", "a", "l", "s", "(", ")">> -> Returns(PyValue("bool", "True"))

\* bool(value)
PyTruth(value) == value.v \notin {"False", "None", "0", ""}

Evaluation(text) == [ev |-> "eval", text |-> text]

\* a faulty variant of guard_outcome: _check_guard without the try statement
guard_outcome_unprotected(condition, obj, out) ==
    IF out.kind = "return"
    THEN Done(<<Evaluation(condition)>>
              \o (IF ~PyTruth(out.value) THEN <<Write("GuardFailed", obj)>> ELSE <<>>))
    ELSE Failed(<<Evaluation(condition)>>, out.value)

\* the try statement of _check_guard, when eval(condition) does out
guard_outcome(condition, obj, out) ==
    IF out.kind = "return"
    THEN Done(<<Evaluation(condition)>>
              \o (IF ~PyTruth(out.value) THEN <<Write("GuardFailed", obj)>> ELSE <<>>))
    ELSE IF IsInstance(out.value, "Exception")
    THEN Done(<<Evaluation(condition), Write("GuardEvaluationError", obj)>>)
    ELSE Failed(<<Evaluation(condition)>>, out.value)

\* _check_guard(condition, obj_name, tracer)
check_guard(condition, obj) == guard_outcome(condition, obj, eval_guard(condition))

\* _static_check(obj, rules, tracer)
static_check(obj, rs) ==
    LET t == Target[obj]
    IN  IF t.kind = "function"
        THEN (IF rs.args_expected_count # <<>> /\ Len(t.params) # rs.args_expected_count[1]
              THEN <<Write("ArgCountMismatch", obj)>> ELSE <<>>)
             \o (IF rs.args # <<>>
                    /\ Range(rs.args) # {t.params[i].name : i \in 1..Len(t.params)}
                 THEN <<Write("ArgNameMismatch", obj)>> ELSE <<>>)
             \o (IF Truthy(rs.return) /\ ~t.annotated
                 THEN <<Write("MissingReturnAnnotation", obj)>> ELSE <<>>)
        ELSE IF t.kind = "class" /\ t.methods = 0
        THEN <<Write("EmptyClass", obj)>>
        ELSE <<>>

Parse(text) == [ev |-> "parse", text |-> text]

\* the prints that open _analyze_entry
inspect_prints(entry) ==
    <<Printed("Inspecting", entry.obj)>>
    \o (IF Truthy(entry.comment) THEN <<Printed("comment", entry.obj)>> ELSE <<>>)
    \o (IF Truthy(entry.expect) THEN <<Printed("expect", entry.obj)>> ELSE <<>>)
    \o (IF Truthy(entry.require) THEN <<Printed("require", entry.obj)>> ELSE <<>>)
    \o (IF Truthy(entry.guard) THEN <<Printed("guard", entry.obj)>> ELSE <<>>)

\* "if expect:" and its three statements, rs being the parsed rules
expectation_check(obj, text, rs, beh) ==
    Then(Done(<<Parse(text)>> \o static_check(obj, rs)), simulate_runtime(obj, rs, beh))

\* _analyze_entry(entry, tracer), when invoking the entry's target does beh
analyze_entry(entry, beh) ==
    Then(Then(Done(inspect_prints(entry) \o check_requirements(entry.require, entry.obj)),
              IF Truthy(entry.guard) THEN check_guard(entry.guard, entry.obj) ELSE Done(<<>>)),
         IF Truthy(entry.expect)
         THEN expectation_check(entry.obj, entry.expect,
                                parse_expectations(entry.expect), beh)
         ELSE Done(<<>>))

\* "for entry in Nakurity._registry: self._analyze_entry(entry, tracer)",
\* from entry i on; behs[i] is what invoking the target of entry i does
RECURSIVE analyze_entries(_, _, _)
analyze_entries(reg, behs, i) ==
    IF i > Len(reg) THEN Done(<<>>)
    ELSE Then(analyze_entry(reg[i], behs[i]), analyze_entries(reg, behs, i + 1))

\* Nakurity.lint()
lint(reg, behs) ==
    Then(Then(Done(<<Printed("lint initiated", "")>>), analyze_entries(reg, behs, 1)),
         Done(<<Printed("lint completed", "")>>))

-----------------------------------------------------------------------------
(* Module enforcement: NakurityRequirement.                                *)

\* inspect.getmembers(module): the functions and classes among the members
\* of each module, sorted by name.  Path and join are defined in module lib
\* and imported by app and calc.
ModuleMembers ==
    [app |-> <<"Path", "Widget">>,
     calc |-> <<"add", "join">>]

Modules == DOMAIN ModuleMembers

\* self.logging.debug(line), as an event
Debug(what, obj) == [ev |-> "debug", what |-> what, obj |-> obj]

\* the condition of the comprehension that builds defined_objs:
\* inspect.isfunction(obj) or inspect.isclass(obj) and obj.__module__ == name
is_defined_obj(obj, module) ==
    \/ Target[obj].kind = "function"
    \/ (Target[obj].kind = "class" /\ Target[obj].module = module)

\* Exception(f"{obj.__name__} is missing Nakurity decorators.")
MissingDecorators(obj) ==
    [type |-> "Exception", v |-> "is missing Nakurity decorators", obj |-> obj]

\* the body of "for obj in defined_objs", from position i on
RECURSIVE verify_from(_, _, _)
verify_from(defined_objs, registered_objs, i) ==
    IF i > Len(defined_objs) THEN Done(<<>>)
    ELSE IF defined_objs[i] \notin registered_objs
    THEN Failed(<<Debug("missing", defined_objs[i]), Debug("hint", defined_objs[i]),
                  Debug("", defined_objs[i])>>,
                MissingDecorators(defined_objs[i]))
    ELSE verify_from(defined_objs, registered_objs, i + 1)

\* _verify_all_decorated()
verify_all_decorated(module, reg) ==
    verify_from(SelectSeq(ModuleMembers[module], LAMBDA o : is_defined_obj(o, module)),
                {reg[i].obj : i \in 1..Len(reg)}, 1)

\* Nakurity(*args): __init__(self) takes no argument besides self
nakurity_init(args) ==
    IF Len(args) = 0 THEN Done(<<>>)
    ELSE Failed(<<>>, PyValue("TypeError", "__init__() takes 1 positional argument"))

\* _run_lint(): Nakurity(self.logging).lint()
run_lint(reg, behs) ==
    Then(Done(<<Debug("Running enforced lint checks", "")>>),
         Then(nakurity_init(<<"self.logging">>), lint(reg, behs)))

\* NakurityRequirement(module): __init__
nakurity_requirement(module, reg, behs) ==
    Then(verify_all_decorated(module, reg), run_lint(reg, behs))

-----------------------------------------------------------------------------
(* Enforcement over annotated modules: SpecEnforce.                        *)

EnforceEntities == {"Path", "Widget", "add", "join"}

\* the text of the decorator @Nakurity.expect(...) on class NakurityRequirement
RequirementExpectation ==
    <<"\n", "E", "x", "p", "e", "c", "t", ":", "\n", " ", " ", " ", " ", "-",
      " ", "t", "a", "k", "e", "s", " ", "1", " ", "a", "r", "g", "u", "m",
      "e", "n", "t", ":", " ", "x", "\n", " ", " ", " ", " ", "-", " ", "r",
      "e", "t", "u", "r", "n", "s", " ", "i", "n", "t", "\n", " ", " ", " ",
      " ", "-", " ", "s", "h", "o", "u", "l", "d", " ", "n", "o", "t", " ",
      "r", "a", "i", "s", "e", " ", "e", "x", "c", "e", "p", "t", "i", "o",
      "n", "\n">>

\* NakurityRequirement exists once requirement.py has run, and defining it
\* registered it: its decorator has appended an entry
InitEnforce ==
    /\ registry = expect(<<>>, RequirementExpectation, "NakurityRequirement")
    /\ lastOp = [op |-> "init"]
    /\ result = Returned(PyNone)
    /\ events = <<>>
    /\ nakulyRegistry = <<>>
    /\ rules = <<>>

\* what the invocations of one lint pass do
LintBehaviours == {Returns(PyValue("int", "0")), Returns(PyValue("str", "xx")), Raises("ValueError")}

Enforce(module, behs) ==
    /\ lastOp' = [op |-> "enforce", module |-> module]
    /\ result' = nakurity_requirement(module, registry, behs).result
    /\ events' = nakurity_requirement(module, registry, behs).events
    /\ UNCHANGED <<registry, nakulyRegistry, rules>>

NextEnforce ==
    \/ \E t \in ExpectTexts, o \in EnforceEntities : Expect(t, o)
    \/ \E t \in CommentTexts, o \in EnforceEntities : Comment(t, o)
    \/ \E n \in RequireArgs, o \in EnforceEntities : Require(n, o)
    \/ \E c \in GuardTexts, o \in EnforceEntities : Guard(c, o)
    \/ \E m \in Modules, behs \in [1..Len(registry) -> LintBehaviours] : Enforce(m, behs)

SpecEnforce == InitEnforce /\ [][NextEnforce]_vars

\* the entities a run of the enforcement reported as missing annotations
ReportedGaps == {events[i].obj : i \in {j \in 1..Len(events) :
                                           events[j].ev = "debug" /\ events[j].what = "missing"}}

\* C5: enforcement checks registry presence only for functions and classes
\* defined in the enforced module: an unannotated entity the module imported
\* from another module never counts as a gap.
C5_ImportedNeverAGap ==
    lastOp.op = "enforce" =>
        \A o \in ReportedGaps : Target[o].module = lastOp.module

\* C6: every run of the enforcement entrypoint triggers the lint entrypoint
\* after the verification, gap or no gap, and the lint pass runs to completion.
C6_LintAlwaysTriggered ==
    lastOp.op = "enforce" =>
        \E i, j \in 1..Len(events) :
            /\ i < j
            /\ events[i] = Printed("lint initiated", "")
            /\ events[j] = Printed("lint completed", "")


-----------------------------------------------------------------------------
(* The unified analysis pass: Nakuly.                                      *)

\* the rules Nakuly.__init__ installs
DefaultRules == <<"NakurityDocRule", "NakurityTypeRule", "NakurityCustomRule">>

\* rule classes of the user, named by what their check does
UserRules == {"AlwaysFails", "AlwaysRaises"}

\* isinstance(rule, NakurityRule)
IsNakurityRule(rule) == rule \in UserRules \/ rule \in Range(DefaultRules)

\* add_rule(rule): the rules after the call, and how the call ended
add_rule(rs, rule) ==
    IF ~IsNakurityRule(rule)
    THEN [rules |-> rs, result |-> Raised(PyValue("TypeError", "Expected NakurityRule instance."))]
    ELSE [rules |-> Append(rs, rule), result |-> Returned(PyNone)]

\* self.logger(line), as an event
Log(what, subject) == [ev |-> "log", what |-> what, subject |-> subject]
\* the call self._analyze_entry(entry) and the call rule.check(entry, obj, logger)
Builtin(obj) == [ev |-> "builtin", obj |-> obj]
Check(rule, obj) == [ev |-> "check", rule |-> rule, obj |-> obj]

\* Devy._analyze_entry(entry): the built-in checks of one entry, which
\* complete or raise
devy_analyze_entry(entry, out) ==
    IF out = "raises" THEN Failed(<<Builtin(entry.obj)>>, PyValue("ValueError", "e"))
    ELSE Done(<<Builtin(entry.obj)>>)

\* rule.check(entry, obj, self.logger): a rule of the user does what its
\* name says, a default rule does what outs gives for it
rule_check(rule, entry, outs) ==
    LET out == CASE rule = "AlwaysFails" -> "fail"
                 [] rule = "AlwaysRaises" -> "raise"
                 [] OTHER -> outs[rule]
    IN  IF out = "raise" THEN Failed(<<Check(rule, entry.obj)>>, PyValue("ValueError", "e"))
        ELSE [events |-> <<Check(rule, entry.obj)>>, result |-> Returned(out = "pass")]

\* a faulty variant of rule_step: the rule loop without a try statement of its own around each rule
rule_step_unprotected(rule, entry, checked) ==
    IF checked.result.kind = "raised" THEN checked
    ELSE Done(checked.events
              \o <<Log(IF checked.result.value THEN "passed" ELSE "failed", rule)>>)

\* the try statement in the body of "for rule in self.rules", when
\* rule.check did checked
rule_step(rule, entry, checked) ==
    IF checked.result.kind = "raised"
    THEN IF IsInstance(checked.result.value, "Exception")
         THEN Done(checked.events \o <<Log("failed with error", rule)>>)
         ELSE checked
    ELSE Done(checked.events
              \o <<Log(IF checked.result.value THEN "passed" ELSE "failed", rule)>>)

\* "for rule in self.rules", from rule j on
RECURSIVE apply_rules(_, _, _, _)
apply_rules(rs, entry, outs, j) ==
    IF j > Len(rs) THEN Done(<<>>)
    ELSE Then(rule_step(rs[j], entry, rule_check(rs[j], entry, outs)),
              apply_rules(rs, entry, outs, j + 1))

\* the try statement around self._analyze_entry(entry), which did analysed
builtin_step(entry, analysed) ==
    IF analysed.result.kind = "raised" /\ IsInstance(analysed.result.value, "Exception")
    THEN Done(analysed.events \o <<Log("Devy internal error", entry.obj)>>)
    ELSE analysed

\* the body of "for entry in self._registry"
analyze_one(rs, entry, devy, outs) ==
    Then(Done(<<Log("Inspecting", entry.obj)>>),
         Then(builtin_step(entry, devy_analyze_entry(entry, devy)),
              apply_rules(rs, entry, outs, 1)))

\* "for entry in self._registry", from entry i on
RECURSIVE analyze_from(_, _, _, _, _)
analyze_from(reg, rs, devy, outs, i) ==
    IF i > Len(reg) THEN Done(<<>>)
    ELSE Then(analyze_one(rs, reg[i], IF reg[i].obj \in devy THEN "raises" ELSE "completes", outs),
              analyze_from(reg, rs, devy, outs, i + 1))

\* Nakuly.analyze(): devy is the set of entities on which the built-in
\* checks raise, outs what the checks of the default rules do
analyze(reg, rs, devy, outs) ==
    Then(Then(Done(<<Log("Running unified analysis", "")>>),
              analyze_from(reg, rs, devy, outs, 1)),
         Done(<<Log("All analyses completed", "")>>))

\* vars(module).items(): the functions and classes among the names of each
\* module, in the order the module binds them (its imports first)
ModuleVars ==
    [app |-> <<"Path", "Widget">>,
     calc |-> <<"join", "add">>]

\* the registry after the loop of lint_module(module)
lint_module_entries(reg, module) ==
    reg \o [i \in 1..Len(ModuleVars[module]) |-> [obj |-> ModuleVars[module][i]]]

-----------------------------------------------------------------------------
(* Nakuly instances: SpecNakuly.                                           *)

CheckOutcomes == {"pass", "fail", "raise"}

\* what the checks of the default rules do in one pass: the documentation
\* rule and the type rule pass, fail or raise, the custom rule passes
OutcomeChoices ==
    {o \in [Range(DefaultRules) -> CheckOutcomes] : o["NakurityCustomRule"] = "pass"}

\* the entities on which the built-in checks raise in one pass
DevyChoices == {{}, {"join"}, {"Path", "add"}}

\* Nakuly(): the registry Devy.__init__ leaves and the rules of __init__
InitNakuly ==
    /\ registry = <<>>
    /\ lastOp = [op |-> "init"]
    /\ result = Returned(PyNone)
    /\ events = <<>>
    /\ nakulyRegistry = <<>>
    /\ rules = DefaultRules

AddRule(rule) ==
    /\ Len(rules) < MaxRules
    /\ rules' = add_rule(rules, rule).rules
    /\ result' = add_rule(rules, rule).result
    /\ lastOp' = [op |-> "add_rule", rule |-> rule]
    /\ events' = IF IsNakurityRule(rule) THEN <<Log("Added rule", rule)>> ELSE <<>>
    /\ UNCHANGED <<registry, nakulyRegistry>>

Analyze(devy, outs) ==
    /\ lastOp' = [op |-> "analyze", devy |-> devy, outs |-> outs]
    /\ result' = analyze(nakulyRegistry, rules, devy, outs).result
    /\ events' = analyze(nakulyRegistry, rules, devy, outs).events
    /\ UNCHANGED <<registry, nakulyRegistry, rules>>

LintModule(module, devy, outs) ==
    /\ Len(nakulyRegistry) + Len(ModuleVars[module]) <= MaxEntries
    /\ nakulyRegistry' = lint_module_entries(nakulyRegistry, module)
    /\ lastOp' = [op |-> "analyze", devy |-> devy, outs |-> outs]
    /\ result' = analyze(nakulyRegistry', rules, devy, outs).result
    /\ events' = analyze(nakulyRegistry', rules, devy, outs).events
    /\ UNCHANGED <<registry, rules>>

NextNakuly ==
    \/ \E r \in UserRules \cup {"not a rule"} : AddRule(r)
    \/ \E devy \in DevyChoices, outs \in OutcomeChoices : Analyze(devy, outs)
    \/ \E m \in Modules, devy \in DevyChoices, outs \in OutcomeChoices :
          LintModule(m, devy, outs)

SpecNakuly == InitNakuly /\ [][NextNakuly]_vars

\* what the check of rule r does in the pass that ran last
OutcomeOf(r) ==
    CASE r = "AlwaysFails" -> "fail"
      [] r = "AlwaysRaises" -> "raise"
      [] OTHER -> lastOp.outs[r]

\* the line a pass reports for rule r
LineOf(r) ==
    Log(CASE OutcomeOf(r) = "pass" -> "passed"
          [] OutcomeOf(r) = "fail" -> "failed"
          [] OutcomeOf(r) = "raise" -> "failed with error", r)

\* the built-in check, the checks of the plugins and their lines, as a pass
\* left them
ChecksAndLines ==
    SelectSeq(events, LAMBDA e : \/ e.ev \in {"builtin", "check"}
                                 \/ (e.ev = "log" /\ e.subject \in Range(rules)))

\* what a pass owes entry i: its built-in check, then for every installed
\* plugin, in registration order, one check followed by its line
OwedTo(i) ==
    <<Builtin(nakulyRegistry[i].obj)>>
    \o Flatten([j \in 1..Len(rules) |->
                   <<Check(rules[j], nakulyRegistry[i].obj), LineOf(rules[j])>>])

-----------------------------------------------------------------------------
(* Annotation and lint passes together: SpecLint.                          *)

LintEntities == {"add", "Widget"}

LintExpectTexts == {<<" ", "N", "o", " ", "e", "x", "c", "e", "p", "t", "i", "o", "n", "\n">>}
LintGuardTexts == {<<"1", "/", "0">>}
LintRequireArgs == {<<"greet">>}

\* what invoking a target does, each time a lint pass invokes it
PassBehaviours == {Returns(PyValue("int", "0")), Raises("ValueError")}

Lint(beh) ==
    /\ lastOp' = [op |-> "lint", beh |-> beh]
    /\ result' = lint(registry, [i \in 1..Len(registry) |-> beh]).result
    /\ events' = lint(registry, [i \in 1..Len(registry) |-> beh]).events
    /\ UNCHANGED <<registry, nakulyRegistry, rules>>

NextLint ==
    \/ \E t \in LintExpectTexts, o \in LintEntities : Expect(t, o)
    \/ \E t \in CommentTexts, o \in LintEntities : Comment(t, o)
    \/ \E n \in LintRequireArgs, o \in LintEntities : Require(n, o)
    \/ \E c \in LintGuardTexts, o \in LintEntities : Guard(c, o)
    \/ \E beh \in PassBehaviours : Lint(beh)

SpecLint == Init /\ [][NextLint]_vars

\* what happens to an entity or to a text of an annotation: an invocation,
\* a parse, an evaluation
Handled == SelectSeq(events, LAMBDA e : e.ev \in {"invoke", "parse", "eval", "trace"})

\* C3: the transformer of every annotator returns exactly the entity it was
\* applied to and does nothing but change the registry: applying it invokes
\* no entity and parses or evaluates no text.
\* Only a lint pass does these.
C3_AnnotatorsAreTransparent ==
    /\ lastOp.op \in Annotators =>
           /\ result = Returned(lastOp.obj)
           /\ Handled = <<>>
    /\ Handled # <<>> => lastOp.op = "lint"

\* guard(condition) was applied to an entity whose entry already carried an
\* expectation text, and returned the entity
C3_Witness ==
    /\ lastOp.op = "guard"
    /\ result = Returned(lastOp.obj)
    /\ \E i \in 1..Len(registry) : registry[i].obj = lastOp.obj /\ Truthy(registry[i].expect)
    /\ Handled = <<>>

-----------------------------------------------------------------------------
(* Guards in a lint pass: SpecGuard.                                       *)

\* guard conditions: one whose evaluation raises, one that evaluates false,
\* one that evaluates true
GuardConditions ==
    { <<"1", "/", "0">>,
      <<"'", "g", "r", "e", "e", "t", "'", " ", "i", "n", " ", "g", "l", "o", "b", "a", "l", "s", "(", ")">>,
      <<"'", "s", "y", "s", "'", " ", "i", "n", " ", "g", "l", "o", "b", "a", "l", "s", "(", ")">> }

NextGuard ==
    \/ \E t \in LintExpectTexts, o \in LintEntities : Expect(t, o)
    \/ \E c \in GuardConditions, o \in LintEntities : Guard(c, o)
    \/ \E beh \in PassBehaviours : Lint(beh)

SpecGuard == Init /\ [][NextGuard]_vars

\* the positions in events of the prints that open the analysis of an entry
InspectPositions ==
    SelectSeq([j \in 1..Len(events) |-> j],
              LAMBDA j : events[j].ev = "print" /\ events[j].what = "Inspecting")

\* the events of the i-th analysis of the pass: from its opening print up to
\* the next opening print, or up to the last event of the pass
AnalysisOf(i) ==
    SubSeq(events, InspectPositions[i],
           (IF i < Len(InspectPositions) THEN InspectPositions[i + 1] ELSE Len(events)) - 1)

\* the findings about guards among evs
GuardFindings(evs) ==
    SelectSeq(evs, LAMBDA e : e.ev = "write"
                              /\ e.finding \in {"GuardFailed", "GuardEvaluationError"})

\* the finding the guard of an entry calls for
GuardFindingOwed(entry) ==
    IF ~Truthy(entry.guard) THEN <<>>
    ELSE IF eval_guard(entry.guard).kind = "raise"
    THEN <<Write("GuardEvaluationError", entry.obj)>>
    ELSE IF ~PyTruth(eval_guard(entry.guard).value)
    THEN <<Write("GuardFailed", entry.obj)>>
    ELSE <<>>

\* the checks of an entry that follow its guard check: the parse of its
\* expectation text and, for a function, the invocation of the target
ChecksAfterGuard(entry) ==
    IF ~Truthy(entry.expect) THEN <<>>
    ELSE <<"parse">> \o (IF Target[entry.obj].kind = "function" THEN <<"invoke">> ELSE <<>>)

====
